---- MODULE Spec2Model ----
(***************************************************************************)
(* Model of the shared browser helpers of the Yokohama nursery tracker     *)
(* (parseCSV in its two variants, loadMaster, loadMonthFacilities) and of  *)
(* the "Fix master + rebuild site data" workflow's configuration surface.  *)
(*                                                                         *)
(* A JavaScript string is a sequence of tokens.  A token is one of the     *)
(* characters the parsers test for (quote, comma, LF, CR, space) or an     *)
(* opaque run of other non-blank characters ("a", "facility_id", ...).     *)
(* The two non-string values the merge meets, undefined and null, are the  *)
(* reserved one-token values Undefined and Null.                           *)
(*                                                                         *)
(* Four specifications share the variables, each exploring one part:       *)
(*   SpecCSV       the two parseCSV variants on the same text              *)
(*   SpecMaster    loadMaster on master tables                             *)
(*   SpecMerge     loadMonthFacilities on a snapshot and a master table    *)
(*   SpecWorkflow  a run of the workflow, from its dispatch inputs         *)
(***************************************************************************)
EXTENDS Integers, Sequences, FiniteSets, TLC

VARIABLES
  text,      \* the CSV text handed to parseCSV / served as master_facilities.csv
  table,     \* what the writer of the text meant: the quoted fields it wrapped
  resQ,      \* run of the quote-aware parseCSV (src/unnamed/part_001)
  resN,      \* run of the naive parseCSV (src/common.js)
  rows,      \* loadMaster's local rows = parseCSV(csv)
  master,    \* the Map loadMaster returned
  mstate,    \* loadMaster: "idle" | "loaded" | "failed"
  monthJson, \* data/<month>.json: [facilities |-> sequence of entries]
  out,       \* facilities of the value loadMonthFacilities returned
  lstate,    \* loadMonthFacilities: "idle" | "loaded"
  remerged,  \* whether out was fed through the merge callback again
  inputs,    \* workflow_dispatch inputs of the run
  env,       \* environment of the "Fix master_facilities.csv (Google)" step
  wfpc       \* position of the workflow job

vars == <<text, table, resQ, resN, rows, master, mstate, monthJson, out,
          lstate, remerged, inputs, env, wfpc>>

csvVars == <<text, table, resQ, resN>>
masterVars == <<rows, master, mstate>>
mergeVars == <<monthJson, out, lstate, remerged>>
wfVars == <<inputs, env, wfpc>>

----------------------------------------------------------------------------
(* Tokens and strings *)

QUOTE == "\""
COMMA == ","
LF == "\n"
CR == "\r"
SP == " "

Whitespace == {SP, LF, CR}

Undefined == <<"undefined!">>
Null == <<"null!">>

\* Bounds of the explored inputs.
MaxTextLen == 5
MaxQuotedLen == 4
MaxMasterRows == 3

Max(S) == CHOOSE m \in S : \A n \in S : n <= m

StringsUpTo(alphabet, n) == UNION {[1..k -> alphabet] : k \in 0..n}

\* String.prototype.trim
RECURSIVE TrimLeft(_)
TrimLeft(s) ==
  IF s = <<>> THEN <<>>
  ELSE IF s[1] \in Whitespace THEN TrimLeft(Tail(s)) ELSE s

RECURSIVE TrimRight(_)
TrimRight(s) ==
  IF s = <<>> THEN <<>>
  ELSE IF s[Len(s)] \in Whitespace THEN TrimRight(SubSeq(s, 1, Len(s) - 1)) ELSE s

Trim(s) == TrimRight(TrimLeft(s))

\* text.replace(/\r\n/g, "\n")
RECURSIVE ReplaceCRLF(_)
ReplaceCRLF(s) ==
  IF s = <<>> THEN <<>>
  ELSE IF Len(s) >= 2 /\ s[1] = CR /\ s[2] = LF
       THEN <<LF>> \o ReplaceCRLF(SubSeq(s, 3, Len(s)))
       ELSE <<s[1]>> \o ReplaceCRLF(Tail(s))

\* .replace(/\r/g, "\n")
ReplaceCR(s) == [i \in 1..Len(s) |-> IF s[i] = CR THEN LF ELSE s[i]]

NormalizeNewlines(s) == ReplaceCR(ReplaceCRLF(s))

\* String.prototype.split(sep) for a one-token separator
RECURSIVE Split(_, _)
Split(s, sep) ==
  IF \A i \in 1..Len(s) : s[i] # sep THEN <<s>>
  ELSE LET p == CHOOSE i \in 1..Len(s) : s[i] = sep /\ \A j \in 1..(i-1) : s[j] # sep
       IN <<SubSeq(s, 1, p - 1)>> \o Split(SubSeq(s, p + 1, Len(s)), sep)

\* safeStr(x)
safeStr(x) == IF x = Undefined \/ x = Null THEN <<>> ELSE x

\* JavaScript truthiness of a string, undefined or null
Truthy(x) == x # Undefined /\ x # Null /\ x # <<>>

\* a || b
Or(a, b) == IF Truthy(a) THEN a ELSE b

\* obj[key] of a plain object
Get(obj, key) == IF key \in DOMAIN obj THEN obj[key] ELSE Undefined

----------------------------------------------------------------------------
(* parseCSV *)

\* row.some(v => String(v).trim() !== "")
SomeNonBlank(row) == \E j \in 1..Len(row) : Trim(row[j]) # <<>>

\* for(c<header.length) obj[header[c]] = (cols[c] ?? "").trim()
RowObject(header, cols) ==
  [k \in {header[c] : c \in 1..Len(header)} |->
     LET c == Max({d \in 1..Len(header) : header[d] = k})
     IN IF c <= Len(cols) THEN Trim(cols[c]) ELSE <<>>]

\* the header row and the loop building the row objects
RowObjects(rs) ==
  IF rs = <<>> THEN <<>>
  ELSE LET header == [c \in 1..Len(rs[1]) |-> Trim(rs[1][c])]
       IN [r \in 1..(Len(rs) - 1) |-> RowObject(header, rs[r + 1])]

\* Scan with the escaped-quote branch lost: a quote inside quotes always closes
RECURSIVE ScanNoEscape(_, _, _, _, _, _)
ScanNoEscape(t, i, inQuotes, field, row, rs) ==
  IF i > Len(t) THEN [rows |-> rs, row |-> row, field |-> field, inQuotes |-> inQuotes]
  ELSE LET c == t[i] IN
    IF inQuotes THEN
      IF c = QUOTE THEN ScanNoEscape(t, i + 1, FALSE, field, row, rs)
      ELSE ScanNoEscape(t, i + 1, inQuotes, Append(field, c), row, rs)
    ELSE
      IF c = QUOTE THEN ScanNoEscape(t, i + 1, TRUE, field, row, rs)
      ELSE IF c = COMMA THEN ScanNoEscape(t, i + 1, inQuotes, <<>>, Append(row, field), rs)
      ELSE IF c = LF THEN
        LET full == Append(row, field)
        IN ScanNoEscape(t, i + 1, inQuotes, <<>>, <<>>,
                        IF SomeNonBlank(full) THEN Append(rs, full) ELSE rs)
      ELSE ScanNoEscape(t, i + 1, inQuotes, Append(field, c), row, rs)

\* the while loop of the quote-aware parser, from position i on
RECURSIVE Scan(_, _, _, _, _, _)
Scan(t, i, inQuotes, field, row, rs) ==
  IF i > Len(t) THEN [rows |-> rs, row |-> row, field |-> field, inQuotes |-> inQuotes]
  ELSE LET c == t[i] IN
    IF inQuotes THEN
      IF c = QUOTE THEN
        IF i + 1 <= Len(t) /\ t[i+1] = QUOTE
        THEN Scan(t, i + 2, inQuotes, Append(field, QUOTE), row, rs)
        ELSE Scan(t, i + 1, FALSE, field, row, rs)
      ELSE Scan(t, i + 1, inQuotes, Append(field, c), row, rs)
    ELSE
      IF c = QUOTE THEN Scan(t, i + 1, TRUE, field, row, rs)
      ELSE IF c = COMMA THEN Scan(t, i + 1, inQuotes, <<>>, Append(row, field), rs)
      ELSE IF c = LF THEN
        LET full == Append(row, field)
        IN Scan(t, i + 1, inQuotes, <<>>, <<>>,
                IF SomeNonBlank(full) THEN Append(rs, full) ELSE rs)
      ELSE Scan(t, i + 1, inQuotes, Append(field, c), row, rs)

\* parseCSV of src/unnamed/part_001: the rows it returns, whether the loop
\* ended inside a quoted field, and whether it threw (it has no throw)
parseCSVQuoteAware(t) ==
  LET s == Scan(NormalizeNewlines(t), 1, FALSE, <<>>, <<>>, <<>>)
      last == Append(s.row, s.field)
      rs == IF SomeNonBlank(last) THEN Append(s.rows, last) ELSE s.rows
  IN [done |-> TRUE, rows |-> RowObjects(rs), inQuotes |-> s.inQuotes, threw |-> FALSE]

\* .filter(l => l.trim() !== "")
NonBlankLines(ls) == SelectSeq(ls, LAMBDA l : Trim(l) # <<>>)

\* parseCSV of src/common.js
parseCSVNaive(t) ==
  LET lines == NonBlankLines(Split(NormalizeNewlines(t), LF))
      rs == [i \in 1..Len(lines) |-> Split(lines[i], COMMA)]
  IN [done |-> TRUE, rows |-> RowObjects(rs), inQuotes |-> FALSE, threw |-> FALSE]

NotRun == [done |-> FALSE, rows |-> <<>>, inQuotes |-> FALSE, threw |-> FALSE]

----------------------------------------------------------------------------
(* Inputs of the parsers *)

RawAlphabet == {"a", COMMA, LF, CR, QUOTE, SP}

\* every text of at most MaxTextLen tokens
RawTexts == StringsUpTo(RawAlphabet, MaxTextLen)

\* how a CSV writer wraps a field: quotes around it, every quote doubled
RECURSIVE DoubleQuotes(_)
DoubleQuotes(c) ==
  IF c = <<>> THEN <<>>
  ELSE (IF c[1] = QUOTE THEN <<QUOTE, QUOTE>> ELSE <<c[1]>>) \o DoubleQuotes(Tail(c))

Wrap(c) == <<QUOTE>> \o DoubleQuotes(c) \o <<QUOTE>>

\* two quoted fields that share MaxQuotedLen tokens of content
CellPairs ==
  UNION {{<<SubSeq(s, 1, k), SubSeq(s, k + 1, Len(s))>> : k \in 0..Len(s)} :
           s \in StringsUpTo(RawAlphabet, MaxQuotedLen)}

\* the two fields laid out as two records under header h, or as one record
\* under header h,k
TableText(tb) ==
  IF tb.kind = "rows"
  THEN <<"h", LF>> \o Wrap(tb.cells[1]) \o <<LF>> \o Wrap(tb.cells[2]) \o <<LF>>
  ELSE <<"h", COMMA, "k", LF>> \o Wrap(tb.cells[1]) \o <<COMMA>> \o Wrap(tb.cells[2])

RawTable == [kind |-> "raw", cells |-> <<>>]

Tables == {[kind |-> kd, cells |-> p] : kd \in {"rows", "cols"}, p \in CellPairs}

EmptyMap == <<>>
NoInputs == [dispatched |-> FALSE]
NoEnv == [set |-> FALSE]

MasterIdle == rows = <<>> /\ master = EmptyMap /\ mstate = "idle"
MergeIdle == monthJson = [facilities |-> <<>>] /\ out = <<>> /\ lstate = "idle" /\ remerged = FALSE
WorkflowIdle == inputs = NoInputs /\ env = NoEnv /\ wfpc = "idle"

InitCSV ==
  /\ \/ table = RawTable /\ text \in RawTexts
     \/ table \in Tables /\ text = TableText(table)
  /\ resQ = NotRun
  /\ resN = NotRun
  /\ MasterIdle /\ MergeIdle /\ WorkflowIdle

\* parseCSV(text), src/unnamed/part_001
ParseQuoteAware ==
  /\ ~resQ.done
  /\ resQ' = parseCSVQuoteAware(text)
  /\ UNCHANGED <<text, table, resN, masterVars, mergeVars, wfVars>>

\* parseCSV(text), src/common.js
ParseNaive ==
  /\ ~resN.done
  /\ resN' = parseCSVNaive(text)
  /\ UNCHANGED <<text, table, resQ, masterVars, mergeVars, wfVars>>

NextCSV == ParseQuoteAware \/ ParseNaive

SpecCSV == InitCSV /\ [][NextCSV]_vars

----------------------------------------------------------------------------
(* Claims about parseCSV, checked under SpecCSV *)

QuoteFree(t) == \A i \in 1..Len(t) : t[i] # QUOTE

\* the records of a quote-free text: its lines, each cut at the delimiters
RefRecords(t) ==
  LET ls == Split(NormalizeNewlines(t), LF)
  IN [i \in 1..Len(ls) |-> Split(ls[i], COMMA)]

\* the first record of the text is a header: it names at least one column
HasHeaderRow(t) == SomeNonBlank(RefRecords(t)[1])

\* one row object per data record with a non-blank field, in input order
RefRows(t) ==
  LET recs == RefRecords(t)
      header == [c \in 1..Len(recs[1]) |-> Trim(recs[1][c])]
      data == SelectSeq(Tail(recs), SomeNonBlank)
  IN [r \in 1..Len(data) |-> RowObject(header, data[r])]

\* a line that is not blank as a line although every field of it is blank
DelimiterOnlyLine(t) ==
  \E i \in 1..Len(RefRecords(t)) :
    /\ ~SomeNonBlank(RefRecords(t)[i])
    /\ Len(RefRecords(t)[i]) > 1

\* the rows a table of quoted cells stands for, given what each cell reads as
TableRows(tb, Read(_)) ==
  IF tb.kind = "rows"
  THEN LET kept == SelectSeq(tb.cells, LAMBDA c : Trim(Read(c)) # <<>>)
       IN [r \in 1..Len(kept) |-> [k \in {<<"h">>} |-> Trim(Read(kept[r]))]]
  ELSE IF \E j \in 1..2 : Trim(Read(tb.cells[j])) # <<>>
       THEN <<[k \in {<<"h">>, <<"k">>} |->
                 IF k = <<"h">> THEN Trim(Read(tb.cells[1])) ELSE Trim(Read(tb.cells[2]))]>>
       ELSE <<>>

Verbatim(c) == c

C4_UnterminatedQuoteIsError ==
  resQ.done => (resQ.threw <=> resQ.inQuotes)

\* C5: for a text with a header row, parseCSV (either variant) returns one
\* row object per data record that has a non-blank field, in input order,
\* none for an all-blank record, every value trimmed and keyed by a header.
C5_RowOrderAndBlankRows ==
  (QuoteFree(text) /\ HasHeaderRow(text)) =>
     /\ resQ.done => resQ.rows = RefRows(text)
     /\ resN.done => resN.rows = RefRows(text)

\* C5 restricted to the quote-aware variant of src/unnamed/part_001.
C5_QuoteAwareOnly ==
  (QuoteFree(text) /\ HasHeaderRow(text) /\ resQ.done) => resQ.rows = RefRows(text)

\* C10: on a text without quote characters the two variants return the same
\* rows.
C10_VariantsAgree ==
  (QuoteFree(text) /\ resQ.done /\ resN.done) => resQ.rows = resN.rows

\* C10 restricted to texts without a delimiter-only line.
C10_AgreeWithoutDelimiterOnlyLines ==
  (QuoteFree(text) /\ ~DelimiterOnlyLine(text) /\ resQ.done /\ resN.done)
     => resQ.rows = resN.rows

----------------------------------------------------------------------------
(* loadMaster *)

\* a property name, as the one-token string it is
Key(n) == <<n>>

\* Array.prototype.join for a one-token separator
RECURSIVE Join(_, _)
Join(parts, sep) ==
  IF parts = <<>> THEN <<>>
  ELSE IF Len(parts) = 1 THEN parts[1]
  ELSE parts[1] \o <<sep>> \o Join(Tail(parts), sep)

\* Map.prototype.set
MapSet(mp, k, v) == [x \in DOMAIN mp \cup {k} |-> IF x = k THEN v ELSE mp[x]]

\* the loop of loadMaster without its "if(!id) continue"
RECURSIVE loadMasterLoopNoSkip(_, _)
loadMasterLoopNoSkip(mp, rs) ==
  IF rs = <<>> THEN mp
  ELSE LET r == Head(rs)
           id == Trim(safeStr(Get(r, Key("facility_id"))))
       IN loadMasterLoopNoSkip(MapSet(mp, id, r), Tail(rs))

\* for(const r of rows){ id = safeStr(r.facility_id).trim(); if(!id) continue; mp.set(id, r) }
RECURSIVE loadMasterLoop(_, _)
loadMasterLoop(mp, rs) ==
  IF rs = <<>> THEN mp
  ELSE LET r == Head(rs)
           id == Trim(safeStr(Get(r, Key("facility_id"))))
       IN loadMasterLoop(IF id = <<>> THEN mp ELSE MapSet(mp, id, r), Tail(rs))

\* master_facilities.csv as the master spec explores it: one of three headers
\* and up to MaxMasterRows rows of an identifier and a name
MasterHeaders ==
  {<<Key("facility_id"), Key("name")>>,
   <<Key("name"), Key("facility_id")>>,
   <<Key("id"), Key("name")>>}

MasterIdCells == {<<"1">>, <<"2">>, <<>>, <<SP>>, <<SP, "1">>}
MasterNameCells == {<<"a">>, Wrap(<<"b", COMMA, "c">>)}

MasterLines ==
  {Join(<<idc, nm>>, COMMA) : idc \in MasterIdCells, nm \in MasterNameCells}

MasterTexts ==
  {Join(<<Join(h, COMMA)>> \o ls, LF) :
     h \in MasterHeaders,
     ls \in UNION {[1..n -> MasterLines] : n \in 0..MaxMasterRows}}

InitMaster ==
  /\ text \in MasterTexts
  /\ table = RawTable
  /\ resQ = NotRun
  /\ resN = NotRun
  /\ MasterIdle /\ MergeIdle /\ WorkflowIdle

\* loadMaster() of src/unnamed/part_001, the fetch succeeding
LoadMasterQuoteAware ==
  /\ mstate = "idle"
  /\ rows' = parseCSVQuoteAware(text).rows
  /\ master' = loadMasterLoop(EmptyMap, rows')
  /\ mstate' = "loaded"
  /\ UNCHANGED <<csvVars, mergeVars, wfVars>>

\* loadMaster() of src/common.js, the fetch succeeding
LoadMasterNaive ==
  /\ mstate = "idle"
  /\ rows' = parseCSVNaive(text).rows
  /\ master' = loadMasterLoop(EmptyMap, rows')
  /\ mstate' = "loaded"
  /\ UNCHANGED <<csvVars, mergeVars, wfVars>>

\* loadMaster() when loadText throws: the catch returns an empty Map
LoadMasterFailed ==
  /\ mstate = "idle"
  /\ master' = EmptyMap
  /\ mstate' = "failed"
  /\ UNCHANGED <<rows, csvVars, mergeVars, wfVars>>

NextMaster == LoadMasterQuoteAware \/ LoadMasterNaive \/ LoadMasterFailed

SpecMaster == InitMaster /\ [][NextMaster]_vars

RowId(r) == Trim(safeStr(Get(r, Key("facility_id"))))

\* C6: the Map loadMaster returns from a parsed table has no blank key, has
\* exactly the distinct non-blank trimmed facility_id values of the table as
\* its keys, and holds under each key a row of the table with that identifier.
C6_MasterKeying ==
  mstate = "loaded" =>
    /\ \A k \in DOMAIN master : Trim(k) # <<>>
    /\ DOMAIN master = {RowId(rows[i]) : i \in 1..Len(rows)} \ {<<>>}
    /\ \A k \in DOMAIN master :
         \E i \in 1..Len(rows) : rows[i] = master[k] /\ RowId(rows[i]) = k

\* C6 witness: three rows, two of them sharing identifier 1 and one with a
\* blank identifier, loaded into a Map with the single key 1.
C6_Witness ==
  /\ mstate = "loaded"
  /\ Len(rows) = 3
  /\ RowId(rows[1]) = <<"1">> /\ RowId(rows[2]) = <<>> /\ RowId(rows[3]) = <<"1">>
  /\ rows[1] # rows[3]
  /\ DOMAIN master = {<<"1">>}

----------------------------------------------------------------------------
(* loadMonthFacilities *)

MergedKeys == {Key("address"), Key("nearest_station"), Key("walk_minutes"), Key("map_url")}
OutKeys == MergedKeys \cup {Key("mapUrl")}
PassKeys == {Key("phone"), Key("website"), Key("lat"), Key("lng")}

EmptyObject == <<>>

\* master.get(id) || {}
Lookup(mp, id) == IF id \in DOMAIN mp THEN mp[id] ELSE EmptyObject

\* the merge callback with the legacy-named alias read from the entry
MergeEntryStaleAlias(f, m) ==
  [k \in DOMAIN f \cup OutKeys |->
     IF k = Key("address")
       THEN safeStr(Or(Or(Get(f, k), Get(m, k)), <<>>))
     ELSE IF k = Key("nearest_station")
       THEN safeStr(Or(Or(Or(Get(f, k), Get(m, k)), Get(m, Key("station"))), <<>>))
     ELSE IF k = Key("walk_minutes")
       THEN safeStr(Or(Or(Get(f, k), Get(m, k)), <<>>))
     ELSE IF k = Key("map_url")
       THEN safeStr(Or(Or(Get(f, k), Get(m, k)), <<>>))
     ELSE IF k = Key("mapUrl")
       THEN safeStr(Or(Or(Get(f, Key("mapUrl")), Get(m, Key("map_url"))), <<>>))
     ELSE f[k]]

\* the merge callback with the two master station spellings in the wrong order
MergeEntryAliasFirst(f, m) ==
  [k \in DOMAIN f \cup OutKeys |->
     IF k = Key("address")
       THEN safeStr(Or(Or(Get(f, k), Get(m, k)), <<>>))
     ELSE IF k = Key("nearest_station")
       THEN safeStr(Or(Or(Or(Get(f, k), Get(m, Key("station"))), Get(m, k)), <<>>))
     ELSE IF k = Key("walk_minutes")
       THEN safeStr(Or(Or(Get(f, k), Get(m, k)), <<>>))
     ELSE IF k = Key("map_url")
       THEN safeStr(Or(Or(Get(f, k), Get(m, k)), <<>>))
     ELSE IF k = Key("mapUrl")
       THEN safeStr(Or(Or(Get(f, Key("map_url")), Get(m, Key("map_url"))), <<>>))
     ELSE f[k]]

\* f => ({...f, address: ..., nearest_station: ..., walk_minutes: ..., map_url: ..., mapUrl: ...})
MergeEntry(f, m) ==
  [k \in DOMAIN f \cup OutKeys |->
     IF k = Key("address")
       THEN safeStr(Or(Or(Get(f, k), Get(m, k)), <<>>))
     ELSE IF k = Key("nearest_station")
       THEN safeStr(Or(Or(Or(Get(f, k), Get(m, k)), Get(m, Key("station"))), <<>>))
     ELSE IF k = Key("walk_minutes")
       THEN safeStr(Or(Or(Get(f, k), Get(m, k)), <<>>))
     ELSE IF k = Key("map_url")
       THEN safeStr(Or(Or(Get(f, k), Get(m, k)), <<>>))
     ELSE IF k = Key("mapUrl")
       THEN safeStr(Or(Or(Get(f, Key("map_url")), Get(m, Key("map_url"))), <<>>))
     ELSE f[k]]

\* (data.facilities||[])
DataFacilities(data) == IF "facilities" \in DOMAIN data THEN data.facilities ELSE <<>>

\* .map(f => { id = safeStr(f.id); m = master.get(id) || {}; ... })
MergeFacilities(fs, mp) ==
  [i \in 1..Len(fs) |-> MergeEntry(fs[i], Lookup(mp, safeStr(Get(fs[i], Key("id")))))]

\* A value of a snapshot entry, by kind
SnapValue(kind, k) ==
  CASE kind = "null" -> Null
    [] kind = "empty" -> <<>>
    [] kind = "blank" -> <<SP>>
    [] OTHER -> <<"s">> \o k

\* A cell of the master table, by kind
MasterValue(kind, k) == IF kind = "empty" THEN <<>> ELSE <<"m">> \o k

FacilityIds == {<<"1">>, <<"2">>}

\* a snapshot entry: its nearest_station is absent, null, "", " " or a name;
\* its other descriptive fields are all null, all "" or all filled
Entry(id, st, rest) ==
  [k \in {Key("id"), Key("name")} \cup (MergedKeys \ {Key("nearest_station")}) \cup PassKeys
          \cup (IF st = "absent" THEN {} ELSE {Key("nearest_station")}) |->
     IF k = Key("id") THEN id
     ELSE IF k = Key("name") THEN <<"n">> \o id
     ELSE IF k = Key("nearest_station") THEN SnapValue(st, k)
     ELSE SnapValue(rest, k)]

Entries ==
  {Entry(id, st, rest) : id \in FacilityIds,
                         st \in {"absent", "null", "empty", "blank", "filled"},
                         rest \in {"null", "empty", "filled"}}

\* the facility lists of a snapshot: identifiers are unique within a snapshot
FacilityLists ==
  {<<>>} \cup {<<e>> : e \in Entries} \cup
  {p \in Entries \X Entries : p[1][Key("id")] # p[2][Key("id")]}

MonthJsons ==
  {[month |-> "2026-04"]} \cup
  {[month |-> "2026-04", facilities |-> fs] : fs \in FacilityLists}

\* master_facilities.csv as the merge spec explores it: with or without the
\* legacy station column, and with or without a row for facility 1
MergeColumns ==
  {<<"facility_id", "address", "nearest_station", "station", "walk_minutes",
     "map_url", "phone", "website", "lat", "lng">>,
   <<"facility_id", "address", "nearest_station", "walk_minutes",
     "map_url", "phone", "website", "lat", "lng">>}

MergeMasterLine(cols, ns, st, rest) ==
  Join([c \in 1..Len(cols) |->
          IF cols[c] = "facility_id" THEN <<"1">>
          ELSE IF cols[c] = "nearest_station" THEN MasterValue(ns, Key(cols[c]))
          ELSE IF cols[c] = "station" THEN MasterValue(st, Key(cols[c]))
          ELSE MasterValue(rest, Key(cols[c]))], COMMA)

MergeMasterTexts ==
  LET Kinds == {"empty", "filled"}
      HeaderLine(cols) == Join([c \in 1..Len(cols) |-> Key(cols[c])], COMMA)
  IN {HeaderLine(cols) \o <<LF>> : cols \in MergeColumns} \cup
     {HeaderLine(cols) \o <<LF>> \o MergeMasterLine(cols, ns, st, rest) \o <<LF>> :
        cols \in MergeColumns, ns \in Kinds, st \in Kinds, rest \in Kinds}

InitMerge ==
  /\ text \in MergeMasterTexts
  /\ table = RawTable
  /\ resQ = NotRun
  /\ resN = NotRun
  /\ MasterIdle
  /\ monthJson \in MonthJsons
  /\ out = <<>> /\ lstate = "idle" /\ remerged = FALSE
  /\ WorkflowIdle

\* loadMonthFacilities(month) of src/unnamed/part_001
LoadMonthFacilitiesQuoteAware ==
  /\ ~remerged
  /\ rows' = parseCSVQuoteAware(text).rows
  /\ master' = loadMasterLoop(EmptyMap, rows')
  /\ mstate' = "loaded"
  /\ out' = MergeFacilities(DataFacilities(monthJson), master')
  /\ lstate' = "loaded"
  /\ UNCHANGED <<csvVars, monthJson, remerged, wfVars>>

\* loadMonthFacilities(month) of src/common.js
LoadMonthFacilitiesNaive ==
  /\ ~remerged
  /\ rows' = parseCSVNaive(text).rows
  /\ master' = loadMasterLoop(EmptyMap, rows')
  /\ mstate' = "loaded"
  /\ out' = MergeFacilities(DataFacilities(monthJson), master')
  /\ lstate' = "loaded"
  /\ UNCHANGED <<csvVars, monthJson, remerged, wfVars>>

\* loadMonthFacilities(month) when the master table cannot be fetched
LoadMonthFacilitiesNoMaster ==
  /\ ~remerged
  /\ master' = EmptyMap
  /\ mstate' = "failed"
  /\ out' = MergeFacilities(DataFacilities(monthJson), master')
  /\ lstate' = "loaded"
  /\ UNCHANGED <<rows, csvVars, monthJson, remerged, wfVars>>

\* the merge callback applied to the records it returned, same master Map
MergeAgain ==
  /\ lstate = "loaded"
  /\ ~remerged
  /\ out' = MergeFacilities(out, master)
  /\ remerged' = TRUE
  /\ UNCHANGED <<csvVars, masterVars, monthJson, lstate, wfVars>>

NextMerge ==
  \/ LoadMonthFacilitiesQuoteAware
  \/ LoadMonthFacilitiesNaive
  \/ LoadMonthFacilitiesNoMaster
  \/ MergeAgain

SpecMerge == InitMerge /\ [][NextMerge]_vars

----------------------------------------------------------------------------
(* Claims about loadMonthFacilities, checked under SpecMerge *)

\* the snapshot entries of the month and, for each, its master record
SnapshotAt(i) == DataFacilities(monthJson)[i]
MasterFor(f) == Lookup(master, safeStr(Get(f, Key("id"))))

\* a value that is a string with at least one token
NonEmpty(x) == x # Undefined /\ x # Null /\ x # <<>>

\* a value that is a string with a token left after trimming
NonBlank(x) == NonEmpty(x) /\ Trim(x) # <<>>

\* the master's value of a merged field, the station under either spelling
MasterSide(m, k) ==
  IF k = Key("nearest_station") /\ ~NonEmpty(Get(m, k))
  THEN Get(m, Key("station"))
  ELSE Get(m, k)

Merged == lstate = "loaded" /\ Len(out) = Len(DataFacilities(monthJson))

\* C1: each of address, nearest_station, walk_minutes and map_url of a merged
\* record is the snapshot's value when that is non-empty after trimming, else
\* the master's value when that is non-empty, else the empty string.
C1_MergePrecedence ==
  Merged =>
    \A i \in 1..Len(out) : \A k \in MergedKeys :
      LET f == SnapshotAt(i)
          m == MasterFor(f)
      IN out[i][k] = IF NonBlank(Get(f, k)) THEN Get(f, k)
                     ELSE IF NonEmpty(MasterSide(m, k)) THEN MasterSide(m, k)
                     ELSE <<>>

\* C2: no shared field of a merged record is the empty string while the
\* snapshot entry or the master record holds a non-empty value for it.
C2_MonotonicImprovement ==
  Merged =>
    \A i \in 1..Len(out) : \A k \in MergedKeys \cup PassKeys :
      LET f == SnapshotAt(i)
          m == MasterFor(f)
      IN (NonEmpty(Get(f, k)) \/ NonEmpty(Get(m, k))) => Get(out[i], k) # <<>>

\* C7: with an empty snapshot nearest_station the merged one is the master's
\* nearest_station if non-empty, else the master's legacy station if
\* non-empty, else empty; the legacy station is never used while the
\* snapshot's or the master's nearest_station is non-empty.
C7_StationAliasFallback ==
  Merged =>
    \A i \in 1..Len(out) :
      LET f == SnapshotAt(i)
          m == MasterFor(f)
          fs == Get(f, Key("nearest_station"))
          ms == Get(m, Key("nearest_station"))
          ls == Get(m, Key("station"))
          r == out[i][Key("nearest_station")]
      IN /\ ~NonEmpty(fs) =>
              r = IF NonEmpty(ms) THEN ms ELSE IF NonEmpty(ls) THEN ls ELSE <<>>
         /\ NonEmpty(fs) => r = fs
         /\ (r = <<>>) <=> (~NonEmpty(fs) /\ ~NonEmpty(ms) /\ ~NonEmpty(ls))

\* C7 witness: a merged record whose station came from the legacy column,
\* snapshot and master nearest_station both being empty.
C7_Witness ==
  /\ Merged /\ ~remerged
  /\ \E i \in 1..Len(out) :
       /\ Get(SnapshotAt(i), Key("nearest_station")) = <<>>
       /\ Get(MasterFor(SnapshotAt(i)), Key("nearest_station")) = <<>>
       /\ Get(MasterFor(SnapshotAt(i)), Key("station")) = <<"m", "station">>
       /\ out[i][Key("nearest_station")] = <<"m", "station">>

\* what every merge result keeps: one record per snapshot entry, in order,
\* every field other than the five merged ones as in the entry, and the
\* mapUrl alias equal to map_url
C8_Shape ==
  lstate = "loaded" =>
    /\ Len(out) = Len(DataFacilities(monthJson))
    /\ \A i \in 1..Len(out) :
         /\ DOMAIN out[i] = DOMAIN SnapshotAt(i) \cup OutKeys
         /\ \A k \in DOMAIN SnapshotAt(i) \ OutKeys : out[i][k] = SnapshotAt(i)[k]
         /\ out[i][Key("mapUrl")] = out[i][Key("map_url")]

\* what every merge step keeps: the snapshot and the master table as they
\* were, and, the master Map being the same, the merged records as they were
C8_Step ==
  /\ monthJson' = monthJson
  /\ text' = text
  /\ (remerged' /\ ~remerged) => master' = master
  /\ (lstate = "loaded" /\ master' = master) => out' = out

\* C8: merging is idempotent and pure: the same inputs give the same merged
\* records every time, merging merged records again with the same master
\* changes nothing, the output has one record per snapshot entry in order,
\* and only address, nearest_station, walk_minutes, map_url and mapUrl
\* (always equal to map_url) differ from the entry.
C8_IdempotentPureMerge == [] C8_Shape /\ [][C8_Step]_vars

\* C8 witness: two merged records, filled from the master, merged again.
C8_Witness ==
  /\ remerged
  /\ Len(out) = 2
  /\ out[1][Key("id")] = <<"2">> /\ out[2][Key("id")] = <<"1">>
  /\ out[2][Key("address")] = <<"m", "address">>
  /\ out[2][Key("mapUrl")] = <<"m", "map_url">>
  /\ out[2][Key("nearest_station")] = <<SP>>

----------------------------------------------------------------------------
(* The "Fix master + rebuild site data" workflow *)

Flag == {"0", "1"}

\* workflow_dispatch.inputs: what a run can be started with
DispatchInputs ==
  [dispatched : {TRUE},
   ward_filter : {"", "Kohoku-ku"},
   max_updates : {"80"},
   only_bad_rows : Flag,
   strict_address_check : Flag,
   sleep_sec : {"0.15"},
   overwrite_phone : Flag,
   overwrite_website : Flag,
   overwrite_map_url : Flag,
   overwrite_station_walk : Flag]

\* env: of the step "Fix master_facilities.csv (Google)"
FixMasterEnv(i) ==
  [set |-> TRUE,
   WARD_FILTER |-> i.ward_filter,
   MAX_UPDATES |-> i.max_updates,
   ONLY_BAD_ROWS |-> i.only_bad_rows,
   STRICT_ADDRESS_CHECK |-> i.strict_address_check,
   GOOGLE_API_SLEEP_SEC |-> i.sleep_sec,
   OVERWRITE_PHONE |-> i.overwrite_phone,
   OVERWRITE_WEBSITE |-> i.overwrite_website,
   OVERWRITE_MAP_URL |-> i.overwrite_map_url,
   FILL_NEAREST_STATION |-> "1",
   OVERWRITE_NEAREST_STATION |-> i.overwrite_station_walk,
   OVERWRITE_WALK_MINUTES |-> i.overwrite_station_walk]

\* env: of the step "Rebuild latest month JSON (apply master to site data)"
RebuildEnv(i) == [set |-> TRUE, WARD_FILTER |-> i.ward_filter]

InitWorkflow ==
  /\ text = <<>>
  /\ table = RawTable
  /\ resQ = NotRun
  /\ resN = NotRun
  /\ MasterIdle /\ MergeIdle /\ WorkflowIdle

\* on: workflow_dispatch
Dispatch ==
  /\ wfpc = "idle"
  /\ inputs' \in DispatchInputs
  /\ wfpc' = "prepared"
  /\ UNCHANGED <<env, csvVars, masterVars, mergeVars>>

\* step "Fix master_facilities.csv (Google)"
FixMasterStep ==
  /\ wfpc = "prepared"
  /\ env' = FixMasterEnv(inputs)
  /\ wfpc' = "fix_master"
  /\ UNCHANGED <<inputs, csvVars, masterVars, mergeVars>>

\* step "Rebuild latest month JSON (apply master to site data)"
RebuildStep ==
  /\ wfpc = "fix_master"
  /\ env' = RebuildEnv(inputs)
  /\ wfpc' = "rebuild"
  /\ UNCHANGED <<inputs, csvVars, masterVars, mergeVars>>

\* step "Commit & push changes"
CommitStep ==
  /\ wfpc = "rebuild"
  /\ env' = NoEnv
  /\ wfpc' = "done"
  /\ UNCHANGED <<inputs, csvVars, masterVars, mergeVars>>

NextWorkflow == Dispatch \/ FixMasterStep \/ RebuildStep \/ CommitStep

SpecWorkflow == InitWorkflow /\ [][NextWorkflow]_vars

OverwriteFields == {"phone", "website", "map_url", "nearest_station", "walk_minutes"}

\* the overwrite policy the Enrichment Pass is started with
OverwritePolicy(e) ==
  [phone |-> e.OVERWRITE_PHONE,
   website |-> e.OVERWRITE_WEBSITE,
   map_url |-> e.OVERWRITE_MAP_URL,
   nearest_station |-> e.OVERWRITE_NEAREST_STATION,
   walk_minutes |-> e.OVERWRITE_WALK_MINUTES]

\* C9: each of the 32 on/off combinations of the five overwrite flags can be
\* configured for a run: before a dispatch, for every combination there is a
\* dispatch whose Enrichment Pass gets exactly that policy.
C9_IndependentOverwriteFlags ==
  wfpc = "idle" =>
    \A c \in [OverwriteFields -> Flag] :
      ENABLED (Dispatch /\ OverwritePolicy(FixMasterEnv(inputs')) = c)

\* what the workflow does instead: the station and walk-minutes flags of an
\* Enrichment Pass are always equal
C9_StationAndWalkTied ==
  wfpc = "fix_master" => env.OVERWRITE_NEAREST_STATION = env.OVERWRITE_WALK_MINUTES

====
